---- MODULE Spec2Model ----
(***************************************************************************)
(* State-machine model of the Google Keep REST wrapper                     *)
(* (src/src/server/rest_api.py) and of the health route of the MCP server  *)
(* (src/src/server/standalone_http.py).                                    *)
(*                                                                         *)
(* Every handler is an `async def` without a suspension point (keep.sync() *)
(* is a blocking call), so on the event loop a handler runs from its first *)
(* line to its response without interleaving: one action per handler.      *)
(*                                                                         *)
(* The session (get_client, the gkeepapi Keep object), serialize_note and  *)
(* can_modify_note live in keep_api.py / gkeepapi, outside src/; they are  *)
(* modelled from the specification (sections 3, 4.1, 4.2, 6).              *)
(***************************************************************************)
EXTENDS Integers, Sequences, FiniteSets, TLC

\* ------------------------------------------------------------------ bounds
\* Identifiers the session can hand out: 1..MaxNotes.
MaxNotes == 2
\* Notes the account may already hold when the process starts: at most NumPre.
NumPre == 1
\* Synchronize calls that may fail in one run.
MaxFaults == 1

\* ------------------------------------------------------------ value spaces
KEEP_MCP == "keep-mcp"
OTHER_LABEL == "other"

\* Strings are sequences of characters, so that "query in title" is computed.
Str == {<<>>, <<"a">>}
\* Optional[str]: None is <<>>, a supplied string s is <<s>>.
None == <<>>
Some(s) == <<s>>
Opt == {None} \cup {Some(s) : s \in Str}

IDs == 1..MaxNotes
Range(s) == {s[i] : i \in 1..Len(s)}

VARIABLES
  client,     \* "none" | "ok": the process-wide session singleton
  override,   \* UNSAFE_MODE
  cache,      \* the session's notes: id -> note
  order,      \* the order in which the session supplies its notes
  labels,     \* the account's labels, by name, in creation order
  remote,     \* the remote account as of the last successful synchronize
  nextId,     \* the next identifier createNote hands out
  req,        \* the last request and its outcome
  body,       \* the last response body
  created,    \* identifiers returned by successful creates
  faults      \* synchronize calls that have failed so far

vars == <<client, override, cache, order, labels, remote, nextId, req, body,
          created, faults>>

\* --------------------------------------------------- session (keep_api.py)
\* get_client(): the singleton once established is reused; until then every
\* call authenticates and may fail.  The set of possible outcomes.
get_client == IF client = "ok" THEN {TRUE} ELSE {TRUE, FALSE}

\* keep.sync(): the possible outcomes (TRUE: the remote account now holds the
\* session's notes and labels; FALSE: it raised).
keep_sync == IF faults < MaxFaults THEN {TRUE, FALSE} ELSE {TRUE}

\* keep.get(note_id): the note, or None when the cache does not hold it.
keep_get(note_id) == note_id \in DOMAIN cache

IsSubstr(q, s) ==
  \E i \in 0..(Len(s) - Len(q)) : SubSeq(s, i + 1, i + Len(q)) = q

\* keep.find(query, archived, trashed): the matching notes in session order.
keep_find(query, archived, trashed) ==
  SelectSeq(order, LAMBDA id :
      /\ (IsSubstr(query, cache[id].title) \/ IsSubstr(query, cache[id].text))
      /\ cache[id].archived = archived
      /\ cache[id].trashed = trashed)

\* keep.createNote(title, text): an absent field yields the empty string.
keep_createNote(title, text) ==
  [title |-> IF title = None THEN <<>> ELSE title[1],
   text |-> IF text = None THEN <<>> ELSE text[1],
   pinned |-> FALSE, color |-> "DEFAULT", labels |-> <<>>,
   archived |-> FALSE, trashed |-> FALSE, deleted |-> FALSE]

\* keep.findLabel(name)
keep_findLabel(ls, name) == name \in Range(ls)

\* keep.createLabel(name)
keep_createLabel(ls, name) == Append(ls, name)

\* note.labels.add(label): a label already on the note is not added again.
labels_add(n, name) ==
  IF name \in Range(n.labels) THEN n
  ELSE [n EXCEPT !.labels = Append(@, name)]

\* note.delete(): the deletion mark.
note_delete(n) == [n EXCEPT !.deleted = TRUE]

\* serialize_note(note)
serialize_note(id, n) ==
  [id |-> id, title |-> n.title, text |-> n.text, pinned |-> n.pinned,
   color |-> n.color,
   labels |-> [i \in 1..Len(n.labels) |-> [name |-> n.labels[i]]]]

\* can_modify_note(note)
can_modify_note(n) == override \/ KEEP_MCP \in Range(n.labels)

\* ------------------------------------------------------------------ Init
PreNote(id, ls, arch, tr) ==
  [title |-> <<"a">>, text |-> <<>>, pinned |-> (id = 1),
   color |-> IF id = 1 THEN "RED" ELSE "DEFAULT", labels |-> ls,
   archived |-> arch, trashed |-> tr, deleted |-> FALSE]

NoteLabelChoices == {<<>>, <<OTHER_LABEL>>, <<KEEP_MCP>>}

Init ==
  /\ client = "none"
  /\ override \in BOOLEAN
  /\ \E n \in 0..NumPre :
       \E ls \in [1..n -> NoteLabelChoices],
          ar \in [1..n -> BOOLEAN], tr \in [1..n -> BOOLEAN],
          extra \in {{}, {KEEP_MCP}} :
         /\ cache = [id \in 1..n |-> PreNote(id, ls[id], ar[id], tr[id])]
         /\ order = [i \in 1..n |-> i]
         /\ nextId = n + 1
         /\ LET used == UNION {Range(ls[id]) : id \in 1..n} \cup extra
            IN labels = IF used = {} THEN <<>>
                        ELSE IF used = {OTHER_LABEL} THEN <<OTHER_LABEL>>
                        ELSE IF used = {KEEP_MCP} THEN <<KEEP_MCP>>
                        ELSE <<OTHER_LABEL, KEEP_MCP>>
  /\ remote = [notes |-> cache, labels |-> labels]
  /\ req = [op |-> "start", id |-> 0, title |-> None, text |-> None,
            query |-> <<>>, authOK |-> TRUE, status |-> 0, syncs |-> 0,
            syncFailed |-> FALSE]
  /\ body = [kind |-> "none"]
  /\ created = {}
  /\ faults = 0

\* The response of a request: what the handler returned.  title and text are
\* the fields the handler got as far as applying (None when it raised before).
Respond(op, id, title, text, query, authOK, status, syncs, syncFailed, b) ==
  /\ req' = [op |-> op, id |-> id, title |-> title, text |-> text,
             query |-> query, authOK |-> authOK, status |-> status,
             syncs |-> syncs, syncFailed |-> syncFailed]
  /\ body' = b
  /\ faults' = IF syncFailed THEN faults + 1 ELSE faults

\* ----------------------------------------------- exception translation
\* What a handler body raised: "none", "http404", "http403" (HTTPException)
\* or "exc" (any other exception).
\* A variant that swallows the exception and answers as if nothing was raised.
CatchAll_Swallow(raised) == 200

\* try/except Exception -> 500 (search_notes, create_note).
CatchAll(raised) == IF raised = "none" THEN 200 ELSE 500

\* A variant without "except HTTPException: raise": everything becomes 500.
CatchReraise_Recast(raised) == IF raised = "none" THEN 200 ELSE 500

\* try/except HTTPException: raise / except Exception -> 500.
CatchReraise(raised) ==
  CASE raised = "none" -> 200
    [] raised = "http404" -> 404
    [] raised = "http403" -> 403
    [] OTHER -> 500

\* A body raised nothing iff all of these hold; otherwise what it raised first.
Raised(authOK, found, allowed, syncOK) ==
  IF ~authOK THEN "exc"
  ELSE IF ~found THEN "http404"
  ELSE IF ~allowed THEN "http403"
  ELSE IF ~syncOK THEN "exc"
  ELSE "none"

ErrorBody == [kind |-> "error"]

\* ------------------------------------------------- rest_api.py handlers
\* GET /health, GET /api/health.  The handler's dict carries no version;
\* response_model=HealthResponse supplies the default "1.0.0".
HealthResponse(d) ==
  [status |-> d.status, timestamp |-> d.timestamp, service |-> d.service,
   google_keep_connected |-> d.google_keep_connected, version |-> "1.0.0"]

health_check ==
  \E authOK \in get_client :
    /\ client' = IF authOK THEN "ok" ELSE client
    /\ Respond("health", 0, None, None, <<>>, authOK, 200, 0, FALSE,
               [kind |-> "health",
                fields |-> HealthResponse(
                  [status |-> IF authOK THEN "healthy" ELSE "unhealthy",
                   timestamp |-> "utcnow",
                   service |-> "google-keep-rest-api",
                   google_keep_connected |-> authOK])])
    /\ UNCHANGED <<override, cache, order, labels, remote, nextId, created>>

\* A variant that forgets trashed=False in the call of keep.find.
SearchResult_Trashed(query) ==
  LET notes == SelectSeq(order, LAMBDA id :
          /\ (IsSubstr(query, cache[id].title)
                \/ IsSubstr(query, cache[id].text))
          /\ cache[id].archived = FALSE)
      notes_data == [i \in 1..Len(notes) |->
                       serialize_note(notes[i], cache[notes[i]])]
  IN [kind |-> "list", notes |-> notes_data, count |-> Len(notes_data)]

\* GET /api/notes/search, lines 113-116
SearchResult(query) ==
  LET notes == keep_find(query, FALSE, FALSE)
      notes_data == [i \in 1..Len(notes) |->
                       serialize_note(notes[i], cache[notes[i]])]
  IN [kind |-> "list", notes |-> notes_data, count |-> Len(notes_data)]

search_notes_as(op, query) ==
  \E authOK \in get_client :
    /\ client' = IF authOK THEN "ok" ELSE client
    /\ Respond(op, 0, None, None, query, authOK,
               CatchAll(IF authOK THEN "none" ELSE "exc"), 0, FALSE,
               IF authOK THEN SearchResult(query) ELSE ErrorBody)
    /\ UNCHANGED <<override, cache, order, labels, remote, nextId, created>>

search_notes(query) == search_notes_as("search", query)

\* GET /api/notes
list_notes == search_notes_as("list", <<>>)

\* GET /api/notes/{note_id}
get_note(note_id) ==
  \E authOK \in get_client :
    LET found == authOK /\ keep_get(note_id)
        status == CatchReraise(Raised(authOK, found, TRUE, TRUE))
    IN /\ client' = IF authOK THEN "ok" ELSE client
       /\ Respond("get", note_id, None, None, <<>>, authOK, status, 0, FALSE,
                  IF status = 200
                  THEN [kind |-> "note",
                        note |-> serialize_note(note_id, cache[note_id])]
                  ELSE ErrorBody)
       /\ UNCHANGED <<override, cache, order, labels, remote, nextId, created>>

\* A variant that creates the label without looking it up first.
GetOrCreateLabel_Always(ls) == keep_createLabel(ls, KEEP_MCP)

\* create_note, lines 173-175: get or create the keep-mcp label.
GetOrCreateLabel(ls) ==
  IF keep_findLabel(ls, KEEP_MCP) THEN ls ELSE keep_createLabel(ls, KEEP_MCP)

\* A variant that finds or creates the label but never adds it to the note.
AttachLabel_Skip(n) == n

\* create_note, line 178: add the label to the note.
AttachLabel(n) == labels_add(n, KEEP_MCP)

\* POST /api/notes
create_note(title, text) ==
  /\ nextId <= MaxNotes
  /\ \E authOK \in get_client :
     \E syncOK \in IF authOK THEN keep_sync ELSE {TRUE} :
       LET id == nextId
           ls1 == GetOrCreateLabel(labels)
           new_note == AttachLabel(keep_createNote(title, text))
           cache1 == [i \in DOMAIN cache \cup {id} |->
                        IF i = id THEN new_note ELSE cache[i]]
           status == CatchAll(Raised(authOK, TRUE, TRUE, syncOK))
       IN /\ client' = IF authOK THEN "ok" ELSE client
          /\ cache' = IF authOK THEN cache1 ELSE cache
          /\ order' = IF authOK THEN Append(order, id) ELSE order
          /\ labels' = IF authOK THEN ls1 ELSE labels
          /\ nextId' = IF authOK THEN nextId + 1 ELSE nextId
          /\ remote' = IF authOK /\ syncOK
                       THEN [notes |-> cache1, labels |-> ls1] ELSE remote
          /\ created' = IF status = 200 THEN created \cup {id} ELSE created
          /\ Respond("create", IF authOK THEN id ELSE 0,
                     IF authOK THEN title ELSE None,
                     IF authOK THEN text ELSE None, <<>>, authOK, status, IF authOK THEN 1 ELSE 0,
                     authOK /\ ~syncOK,
                     IF status = 200
                     THEN [kind |-> "note",
                           note |-> serialize_note(id, new_note)]
                     ELSE ErrorBody)
          /\ UNCHANGED override

\* A variant without the gate.
Forbidden_Never(n) == FALSE

\* update_note / delete_note, lines 205-209 and 242-246: the gate.
Forbidden(n) == ~can_modify_note(n)

\* A variant that tests truthiness ("if note_update.title:") instead of
\* "is not None": a supplied empty string no longer overwrites.
ApplyUpdate_Truthy(n, title, text) ==
  [n EXCEPT !.title = IF title # None /\ title[1] # <<>> THEN title[1] ELSE @,
            !.text = IF text # None /\ text[1] # <<>> THEN text[1] ELSE @]

\* update_note, lines 211-214: only supplied fields overwrite.
ApplyUpdate(n, title, text) ==
  [n EXCEPT !.title = IF title # None THEN title[1] ELSE @,
            !.text = IF text # None THEN text[1] ELSE @]

\* A variant that undoes the assignments when keep.sync() raises.
update_note_Rollback(note_id, title, text) ==
  \E authOK \in get_client :
    LET found == authOK /\ keep_get(note_id)
        allowed == found /\ ~Forbidden(cache[note_id])
    IN \E syncOK \in IF allowed THEN keep_sync ELSE {TRUE} :
    LET cache1 == IF allowed /\ syncOK
                  THEN [cache EXCEPT ![note_id] = ApplyUpdate(@, title, text)]
                  ELSE cache
        status == CatchReraise(Raised(authOK, found, allowed, syncOK))
    IN /\ client' = IF authOK THEN "ok" ELSE client
       /\ cache' = cache1
       /\ remote' = IF allowed /\ syncOK
                    THEN [notes |-> cache1, labels |-> labels] ELSE remote
       /\ Respond("update", note_id, IF allowed THEN title ELSE None,
                  IF allowed THEN text ELSE None, <<>>, authOK, status,
                  IF allowed THEN 1 ELSE 0, allowed /\ ~syncOK,
                  IF status = 200
                  THEN [kind |-> "note",
                        note |-> serialize_note(note_id, cache1[note_id])]
                  ELSE ErrorBody)
       /\ UNCHANGED <<override, order, labels, nextId, created>>

\* PUT /api/notes/{note_id}
update_note(note_id, title, text) ==
  \E authOK \in get_client :
    LET found == authOK /\ keep_get(note_id)
        allowed == found /\ ~Forbidden(cache[note_id])
    IN \E syncOK \in IF allowed THEN keep_sync ELSE {TRUE} :
    LET cache1 == IF allowed
                  THEN [cache EXCEPT ![note_id] = ApplyUpdate(@, title, text)]
                  ELSE cache
        status == CatchReraise(Raised(authOK, found, allowed, syncOK))
    IN /\ client' = IF authOK THEN "ok" ELSE client
       /\ cache' = cache1
       /\ remote' = IF allowed /\ syncOK
                    THEN [notes |-> cache1, labels |-> labels] ELSE remote
       /\ Respond("update", note_id, IF allowed THEN title ELSE None,
                  IF allowed THEN text ELSE None, <<>>, authOK, status,
                  IF allowed THEN 1 ELSE 0, allowed /\ ~syncOK,
                  IF status = 200
                  THEN [kind |-> "note",
                        note |-> serialize_note(note_id, cache1[note_id])]
                  ELSE ErrorBody)
       /\ UNCHANGED <<override, order, labels, nextId, created>>

\* A variant that calls keep.sync() before note.delete().
delete_note_SyncFirst(note_id) ==
  \E authOK \in get_client :
    LET found == authOK /\ keep_get(note_id)
        allowed == found /\ ~Forbidden(cache[note_id])
    IN \E syncOK \in IF allowed THEN keep_sync ELSE {TRUE} :
    LET cache1 == IF allowed /\ syncOK
                  THEN [cache EXCEPT ![note_id] = note_delete(@)]
                  ELSE cache
        status == CatchReraise(Raised(authOK, found, allowed, syncOK))
    IN /\ client' = IF authOK THEN "ok" ELSE client
       /\ cache' = cache1
       /\ remote' = IF allowed /\ syncOK
                    THEN [notes |-> cache, labels |-> labels] ELSE remote
       /\ Respond("delete", note_id, None, None, <<>>, authOK, status,
                  IF allowed THEN 1 ELSE 0, allowed /\ ~syncOK,
                  IF status = 200
                  THEN [kind |-> "deleted", status |-> "success"]
                  ELSE ErrorBody)
       /\ UNCHANGED <<override, order, labels, nextId, created>>

\* DELETE /api/notes/{note_id}
delete_note(note_id) ==
  \E authOK \in get_client :
    LET found == authOK /\ keep_get(note_id)
        allowed == found /\ ~Forbidden(cache[note_id])
    IN \E syncOK \in IF allowed THEN keep_sync ELSE {TRUE} :
    LET cache1 == IF allowed
                  THEN [cache EXCEPT ![note_id] = note_delete(@)]
                  ELSE cache
        status == CatchReraise(Raised(authOK, found, allowed, syncOK))
    IN /\ client' = IF authOK THEN "ok" ELSE client
       /\ cache' = cache1
       /\ remote' = IF allowed /\ syncOK
                    THEN [notes |-> cache1, labels |-> labels] ELSE remote
       /\ Respond("delete", note_id, None, None, <<>>, authOK, status,
                  IF allowed THEN 1 ELSE 0, allowed /\ ~syncOK,
                  IF status = 200
                  THEN [kind |-> "deleted", status |-> "success"]
                  ELSE ErrorBody)
       /\ UNCHANGED <<override, order, labels, nextId, created>>

\* ------------------------------------------- standalone_http.py handlers
\* A variant in which the failure branch forgets status_code=503.
mcp_health_check_200 ==
  \E authOK \in get_client :
    /\ client' = IF authOK THEN "ok" ELSE client
    /\ Respond("mcp_health", 0, None, None, <<>>, authOK, 200, 0, FALSE,
               [kind |-> "health",
                fields |-> IF authOK
                  THEN [status |-> "healthy", service |-> "google-keep-mcp",
                        google_keep_connected |-> TRUE]
                  ELSE [status |-> "unhealthy", service |-> "google-keep-mcp",
                        google_keep_connected |-> FALSE, error |-> "str(e)"]])
    /\ UNCHANGED <<override, cache, order, labels, remote, nextId, created>>

\* GET /health on the MCP server: a JSONResponse built by hand.
mcp_health_check ==
  \E authOK \in get_client :
    /\ client' = IF authOK THEN "ok" ELSE client
    /\ Respond("mcp_health", 0, None, None, <<>>, authOK,
               IF authOK THEN 200 ELSE 503, 0, FALSE,
               [kind |-> "health",
                fields |-> IF authOK
                  THEN [status |-> "healthy", service |-> "google-keep-mcp",
                        google_keep_connected |-> TRUE]
                  ELSE [status |-> "unhealthy", service |-> "google-keep-mcp",
                        google_keep_connected |-> FALSE, error |-> "str(e)"]])
    /\ UNCHANGED <<override, cache, order, labels, remote, nextId, created>>

\* GET /api/health on the MCP server: return await health_check(request)
api_health_check == mcp_health_check

Next ==
  \/ health_check
  \/ \E q \in Str : search_notes(q)
  \/ list_notes
  \/ \E id \in IDs : get_note(id)
  \/ \E t \in Opt, x \in Opt : create_note(t, x)
  \/ \E id \in IDs, t \in Opt, x \in Opt : update_note(id, t, x)
  \/ \E id \in IDs : delete_note(id)
  \/ mcp_health_check
  \/ api_health_check

Spec == Init /\ [][Next]_vars

\* =================================================================== claims
Mutating == {"create", "update", "delete"}
DataOps == {"search", "list", "get", "create", "update", "delete"}
Owned(n) == KEEP_MCP \in Range(n.labels)
CountLabel(ls, name) == Cardinality({i \in 1..Len(ls) : ls[i] = name})
Pos(s, x) == CHOOSE i \in 1..Len(s) : s[i] = x
RestHealthFields ==
  {"status", "timestamp", "service", "google_keep_connected", "version"}

\* C1: with the override disabled, an update or delete of a note that lacks
\* the label 'keep-mcp' is rejected (403; 500 only when the session could not
\* be obtained) and changes nothing: the cache, hence the note's title, text
\* and deletion mark, the remote account, and no synchronize call is made.
C1_GateBlocksUnowned ==
  [][\A id \in DOMAIN cache :
       (/\ req'.op \in {"update", "delete"}
        /\ req'.id = id
        /\ ~override
        /\ ~Owned(cache[id]))
       => /\ cache' = cache
          /\ remote' = remote
          /\ labels' = labels
          /\ req'.syncs = 0
          /\ req'.status = IF req'.authOK THEN 403 ELSE 500]_vars

\* C1 witness: after a create, a delete of an unowned note was answered 403.
C1_Witness ==
  /\ req.op = "delete" /\ req.status = 403 /\ ~override
  /\ req.id \in DOMAIN cache /\ ~Owned(cache[req.id])
  /\ ~cache[req.id].deleted
  /\ Cardinality(DOMAIN cache) > 1

\* C2 (as claimed, for a request that obtained the session): unknown id ->
\* 404; known id -> 403 exactly when the override is off and the label is
\* missing; otherwise the request succeeds.
C2_Original ==
  [][(req'.op \in {"update", "delete"} /\ req'.authOK) =>
       LET id == req'.id
           gated == id \in DOMAIN cache /\ ~override /\ ~Owned(cache[id])
       IN /\ id \notin DOMAIN cache => req'.status = 404
          /\ id \in DOMAIN cache => ((req'.status = 403) <=> gated)
          /\ (id \in DOMAIN cache /\ ~gated) => req'.status = 200]_vars

\* C2 (amended): the classification holds once the session is obtained, and
\* a permitted request succeeds unless its synchronize call fails; a failure
\* of get_client or of synchronize is the only source of a 500.
C2_Classification ==
  [][req'.op \in {"update", "delete"} =>
       LET id == req'.id
           gated == id \in DOMAIN cache /\ ~override /\ ~Owned(cache[id])
       IN req'.status =
            IF ~req'.authOK THEN 500
            ELSE IF id \notin DOMAIN cache THEN 404
            ELSE IF gated THEN 403
            ELSE IF req'.syncFailed THEN 500
            ELSE 200]_vars

\* C2 witness: an update of an unowned note succeeded under the override.
C2_Witness ==
  /\ req.op = "update" /\ req.status = 200 /\ override
  /\ ~Owned(cache[req.id])

\* C3 frame: a permitted update overwrites the title only when one is supplied
\* and the text only when one is supplied; nothing else of the note and no
\* other note changes; exactly one synchronize call is made.
C3_Frame ==
  \A id \in DOMAIN cache :
    (/\ req'.op = "update" /\ req'.id = id /\ req'.authOK
     /\ (override \/ Owned(cache[id])))
    => /\ DOMAIN cache' = DOMAIN cache
       /\ cache'[id] =
            [cache[id] EXCEPT
               !.title = IF req'.title # None THEN req'.title[1] ELSE @,
               !.text = IF req'.text # None THEN req'.text[1] ELSE @]
       /\ \A o \in DOMAIN cache \ {id} : cache'[o] = cache[o]
       /\ labels' = labels /\ order' = order
       /\ req'.syncs = 1

\* C3 (as claimed): ... and an update that supplies neither field succeeds.
C3_Original ==
  [][/\ C3_Frame
     /\ \A id \in DOMAIN cache :
          (/\ req'.op = "update" /\ req'.id = id /\ req'.authOK
           /\ (override \/ Owned(cache[id]))
           /\ req'.title = None /\ req'.text = None)
          => (cache' = cache /\ req'.syncs = 1 /\ req'.status = 200)]_vars

\* C3 (amended): ... and an update that supplies neither field leaves the note
\* unchanged, still synchronizes once, and answers 200 unless that
\* synchronize call fails (then 500).
C3_PartialUpdate ==
  [][/\ C3_Frame
     /\ \A id \in DOMAIN cache :
          (/\ req'.op = "update" /\ req'.id = id /\ req'.authOK
           /\ (override \/ Owned(cache[id])))
          => /\ req'.status = IF req'.syncFailed THEN 500 ELSE 200
             /\ (req'.title = None /\ req'.text = None) => cache' = cache]_vars

\* C3 witness: an update that supplied only a text succeeded and the note
\* still has its earlier, different title.
C3_Witness ==
  /\ req.op = "update" /\ req.status = 200
  /\ req.title = None /\ req.text = Some(<<>>)
  /\ cache[req.id].title = <<"a">> /\ cache[req.id].text = <<>>

\* C4: the account never holds two labels named 'keep-mcp'; a note returned
\* by a successful create carries it; the label is created only by a create
\* that finds it missing, and a create that finds it reuses it.
C4_LabelOnce ==
  /\ [](/\ CountLabel(labels, KEEP_MCP) <= 1
        /\ CountLabel(remote.labels, KEEP_MCP) <= 1
        /\ (req.op = "create" /\ req.status = 200) =>
              /\ Owned(cache[req.id])
              /\ [name |-> KEEP_MCP] \in Range(body.note.labels)
              /\ KEEP_MCP \in Range(labels))
  /\ [][/\ KEEP_MCP \in Range(labels) => labels' = labels
        /\ labels' # labels =>
             (req'.op = "create" /\ labels' = Append(labels, KEEP_MCP))]_vars

\* C4 witness: two creates succeeded and the account holds the label once.
C4_Witness ==
  /\ req.op = "create" /\ req.status = 200
  /\ Cardinality(created) = 2
  /\ labels = <<KEEP_MCP>>

\* C5: when a create, update or delete answers 200, it made exactly one
\* synchronize call and the remote account equals the session's notes and
\* labels, mutations included; an identifier returned by a successful create
\* stays in the session and a get of it answers 200.
C5_SyncBeforeResponse ==
  /\ (req.op \in Mutating /\ req.status = 200) =>
        /\ req.syncs = 1
        /\ remote = [notes |-> cache, labels |-> labels]
        /\ req.op = "delete" => remote.notes[req.id].deleted
        /\ req.op = "create" => Owned(remote.notes[req.id])
        /\ req.op = "update" =>
             /\ req.title # None => remote.notes[req.id].title = req.title[1]
             /\ req.text # None => remote.notes[req.id].text = req.text[1]
  /\ \A id \in created : id \in DOMAIN cache /\ id \in DOMAIN remote.notes
  /\ (req.op = "get" /\ req.id \in created) => req.status = 200

\* C5 witness: a get of an identifier returned by create answered 200.
C5_Witness ==
  /\ req.op = "get" /\ req.id \in created /\ req.status = 200
  /\ body.note.id = req.id

\* C6: a search with the empty query, and a listing, that answers 200 holds
\* every note that is neither archived nor trashed exactly once, nothing
\* else, in session order, serialized; count is the length of the list; and
\* it answers 200 whenever the session is obtained.
C6_SearchAll ==
  (req.op \in {"search", "list"} /\ req.query = <<>>) =>
    /\ req.status = IF req.authOK THEN 200 ELSE 500
    /\ req.status = 200 =>
         LET ns == body.notes
             vis == {id \in DOMAIN cache :
                       ~cache[id].archived /\ ~cache[id].trashed}
         IN /\ body.count = Len(ns)
            /\ \A id \in vis :
                 Cardinality({i \in 1..Len(ns) : ns[i].id = id}) = 1
            /\ \A i \in 1..Len(ns) :
                 /\ ns[i].id \in vis
                 /\ ns[i].title = cache[ns[i].id].title
                 /\ ns[i].text = cache[ns[i].id].text
                 /\ ns[i].pinned = cache[ns[i].id].pinned
                 /\ ns[i].color = cache[ns[i].id].color
                 /\ Len(ns[i].labels) = Len(cache[ns[i].id].labels)
            /\ \A i, j \in 1..Len(ns) :
                 i < j => Pos(order, ns[i].id) < Pos(order, ns[j].id)

\* C6 witness: a listing returned one note of two, the other being trashed,
\* with the override off and the returned note unowned.
C6_Witness ==
  /\ req.op = "list" /\ req.status = 200
  /\ Cardinality(DOMAIN cache) = 2 /\ body.count = 1
  /\ \E id \in DOMAIN cache : cache[id].trashed /\ ~cache[id].archived

\* C7 (as claimed): the MCP /health route returns the REST health record's
\* fields, and 503 when the session cannot be established.
C7_Original ==
  req.op = "mcp_health" =>
    /\ DOMAIN body.fields = RestHealthFields
    /\ ~req.authOK => req.status = 503

\* C7 (amended): the MCP /health route returns status, service and
\* google_keep_connected (plus error on failure), without timestamp and
\* version; it answers 503 when the session cannot be established and 200
\* otherwise.  The REST health check returns the five fields with 200 always.
C7_HealthShapes ==
  /\ req.op = "mcp_health" =>
       /\ req.status = IF req.authOK THEN 200 ELSE 503
       /\ DOMAIN body.fields =
            {"status", "service", "google_keep_connected"}
              \cup (IF req.authOK THEN {} ELSE {"error"})
       /\ body.fields.google_keep_connected = req.authOK
  /\ req.op = "health" =>
       /\ req.status = 200
       /\ DOMAIN body.fields = RestHealthFields
       /\ body.fields.google_keep_connected = req.authOK

\* C7 witness: the MCP /health route answered 503.
C7_Witness ==
  req.op = "mcp_health" /\ ~req.authOK /\ req.status = 503

\* C8: a data request in which get_client or synchronize failed answers 500,
\* and no request makes more than one synchronize call.
C8_FailurePropagates ==
  /\ req.syncs <= 1
  /\ req.syncFailed => req.syncs = 1
  /\ (req.op \in DataOps /\ (~req.authOK \/ req.syncFailed)) =>
       req.status = 500

\* C8 witness: a create whose synchronize call failed answered 500.
C8_Witness ==
  req.op = "create" /\ req.syncFailed /\ req.status = 500 /\ req.syncs = 1

\* C9: a note returned by a successful create stays in the session with the
\* label 'keep-mcp', and no later update or delete of it is answered 403.
C9_CreatedStaysModifiable ==
  /\ \A id \in created : id \in DOMAIN cache /\ Owned(cache[id])
  /\ (req.op \in {"update", "delete"} /\ req.id \in created) =>
       req.status # 403

\* C9 witness: with the override off, a created note was deleted successfully.
C9_Witness ==
  /\ req.op = "delete" /\ req.id \in created /\ req.status = 200
  /\ ~override /\ cache[req.id].deleted
  /\ cache[req.id].title = <<"a">> /\ cache[req.id].text = <<"a">>

\* C10: a create, update or delete whose synchronize call fails answers 500
\* and keeps its local effect: the supplied title/text are in the session, the
\* deletion mark is set, the new note is in the session; a get returns what
\* the session holds.
C10_NoRollback ==
  /\ req.syncFailed =>
       /\ req.status = 500
       /\ req.id \in DOMAIN cache
       /\ req.op = "update" =>
            /\ req.title # None => cache[req.id].title = req.title[1]
            /\ req.text # None => cache[req.id].text = req.text[1]
       /\ req.op = "delete" => cache[req.id].deleted
       /\ req.op = "create" => (req.id \notin created /\ Owned(cache[req.id]))
  /\ (req.op = "get" /\ req.status = 200) =>
       body.note = serialize_note(req.id, cache[req.id])

\* C10 witness: an update answered 500 and the session holds the new title,
\* which the remote account does not.
C10_Witness ==
  /\ req.op = "update" /\ req.syncFailed /\ req.status = 500
  /\ req.title = Some(<<"a">>)
  /\ cache[req.id].title = <<"a">>
  /\ remote.notes[req.id].title = <<>>
====
